---- MODULE Spec2Model ----
(***************************************************************************)
(* A model of xplatai.go: the handle of a llama.cpp worker process         *)
(* (New, Close, WaitUntilLoaded) and the two request styles (Chat,         *)
(* Complete) that talk to it over loopback HTTP.                           *)
(*                                                                         *)
(* Time is counted in ticks of 1/TicksPerMs milliseconds, so that a        *)
(* time.Duration below one millisecond is representable.  Strings are      *)
(* sequences of chunks; a chunk is either one whitespace character or a    *)
(* run of non-whitespace text.  A response body is a sequence of JSON      *)
(* tokens (or of plain text), decoded by the parser below.                 *)
(***************************************************************************)
EXTENDS Integers, Sequences, FiniteSets, TLC

VARIABLES
    serverFile,   \* llamacpp/llama-server.exe: "absent", "unopenable", "present"
    cwdOk,        \* whether os.Getwd succeeds
    hasHandle,    \* New has returned an *XpltAI to the caller
    proc,         \* x.proc: "nil", "unstarted" (Cmd built, Process nil), "running", "killed"
    isConn,       \* x.isConn
    launched,     \* number of child processes started so far
    newErr,       \* the error New returned ("none" before New)
    closeRes,     \* what the last Close did: "none", "nil", "err", "panic"
    crashed,      \* the program died of a run-time panic
    succeeded,    \* some Chat/Complete call has returned a nil error to its caller
    pc,           \* per caller: "idle", "sleep", "head", "post", "ret"
    op,           \* per caller: "chat" or "complete"
    arg,          \* per caller: the maxTokens argument
    idx,          \* per caller: the loop variable i of the availability loop
    late,         \* per caller: the call began after a successful call had returned
    sawConn,      \* per caller: the value the call read from x.isConn
    probes,       \* per caller: HEAD requests issued by this call
    slept,        \* per caller: ticks slept by this call
    lastSleep,    \* per caller: length of the sleep before the latest probe
    lastProbe,    \* per caller: outcome of the latest probe ("none" before one)
    posts,        \* per caller: POST requests issued by this call
    req,          \* per caller: the request body sent
    body,         \* per caller: the outcome of the POST (error or body)
    res,          \* per caller: the (string, error) pair the call returns
    wPc,          \* WaitUntilLoaded: "idle", "check", "head", "sleep", "ret"
    wArg,         \* WaitUntilLoaded: the timeout argument, in ticks
    wDeadline,    \* WaitUntilLoaded: timeoutTime, in ticks since the call began
    wNow,         \* WaitUntilLoaded: ticks elapsed since the call began
    wPolls,       \* WaitUntilLoaded: 0, 1 or 2 (two or more) polls made
    wGap,         \* WaitUntilLoaded: ticks slept since the latest poll was answered
    wLast,        \* WaitUntilLoaded: outcome of the latest poll
    wRes,         \* WaitUntilLoaded: the error returned
    waited,       \* some WaitUntilLoaded call has returned a nil error
    hostOs,       \* runtime.GOOS
    hostArch,     \* runtime.GOARCH
    rHw,          \* getDownloadUrl: the hardware argument of the latest call
    rOut,         \* getDownloadUrl: the (url, error) pair the latest call returned
    fs,           \* the files and directories that exist, by path
    pPc,          \* DownloadRequirements: "idle", "clear", "get", "save", "extract", "ret"
    pHad,         \* DownloadRequirements: IsRequDownloaded() when the call began
    pOld,         \* DownloadRequirements: what the worker directory held when the call began
    pReply,       \* DownloadRequirements: the answer to the GET
    pNext,        \* DownloadRequirements: index of the next archive entry
    pWrote,       \* DownloadRequirements: the paths the extraction created or wrote
    pRes          \* DownloadRequirements: the error returned

handleVars == <<serverFile, cwdOk, hasHandle, proc, isConn, launched, newErr,
                closeRes, crashed, succeeded>>
callVars   == <<pc, op, arg, idx, late, sawConn, probes, slept, lastSleep,
                lastProbe, posts, req, body, res>>
waitVars   == <<wPc, wArg, wDeadline, wNow, wPolls, wGap, wLast, wRes>>
hostVars   == <<hostOs, hostArch>>
urlVars    == <<rHw, rOut>>
provVars   == <<fs, pPc, pHad, pOld, pReply, pNext, pWrote, pRes>>
restVars   == <<hostVars, urlVars, provVars>>
vars       == <<handleVars, callVars, waitVars, waited, restVars>>

----------------------------------------------------------------------------
(* Bounds of the model *)

TicksPerMs == 2          \* resolution of the clock: ticks per millisecond
MaxTokensArg == 2        \* largest maxTokens argument tried besides 150, 151
MaxWaitArg == 3          \* largest small timeout (in ticks) tried
MaxWaitSeconds == 2      \* largest timeout in whole seconds tried
MaxEntries == 2          \* largest number of entries in a downloaded archive

(* Program constants *)

DefaultMaxTokens == 150      \* xplatai.go:142, 231
ProbeAttempts == 10          \* xplatai.go:147, 236
LastAttempt == 9             \* xplatai.go:154, 243
ReadyBelow == 500            \* xplatai.go:132, 150, 239
CeilingMinutes == 99         \* xplatai.go:125

Millisecond == TicksPerMs
Second == 1000 * Millisecond
Minute == 60 * Second

Callers == {"a", "b"}       \* goroutines that call Chat/Complete on the handle

----------------------------------------------------------------------------
(* Strings *)

Whitespace == {" ", "\t"}

RECURSIVE TrimLeft(_)
TrimLeft(s) ==
    IF s # <<>> /\ Head(s) \in Whitespace THEN TrimLeft(Tail(s)) ELSE s

RECURSIVE TrimRight(_)
TrimRight(s) ==
    IF s # <<>> /\ s[Len(s)] \in Whitespace
    THEN TrimRight(SubSeq(s, 1, Len(s) - 1))
    ELSE s

TrimSpace(s) == TrimRight(TrimLeft(s))

----------------------------------------------------------------------------
(* Response bodies: tokens, JSON values, the worker's encoder and the      *)
(* decoder json.Unmarshal applies.                                         *)

Tok(k, v) == [k |-> k, v |-> v]
LBrace == Tok("{", <<>>)
RBrace == Tok("}", <<>>)
LBrack == Tok("[", <<>>)
RBrack == Tok("]", <<>>)
Colon  == Tok(":", <<>>)
Comma  == Tok(",", <<>>)
NumTok == Tok("num", <<>>)
NullTok == Tok("null", <<>>)
WsTok  == Tok("ws", <<>>)
StrTok(s) == Tok("str", s)
TextTok(s) == Tok("text", s)

\* the first byte of a non-empty body
FirstByte(b) ==
    CASE b[1].k \in {"{", "}", "[", "]", ":", ","} -> b[1].k
      [] b[1].k = "str"  -> "\""
      [] b[1].k = "num"  -> "7"
      [] b[1].k = "null" -> "n"
      [] b[1].k = "ws"   -> " "
      [] OTHER           -> "x"

NilV == [t |-> "nil"]
NumV == [t |-> "num"]
StrV(s) == [t |-> "str", s |-> s]
ArrV(xs) == [t |-> "arr", a |-> xs]
ObjV(ms) == [t |-> "obj", o |-> ms]
Member(k, x) == [key |-> k, val |-> x]

\* what the worker writes for a JSON value
RECURSIVE Marshal(_)
RECURSIVE MarshalElems(_)
RECURSIVE MarshalMembers(_)
Marshal(x) ==
    CASE x.t = "str" -> <<StrTok(x.s)>>
      [] x.t = "num" -> <<NumTok>>
      [] x.t = "nil" -> <<NullTok>>
      [] x.t = "arr" -> <<LBrack>> \o MarshalElems(x.a) \o <<RBrack>>
      [] x.t = "obj" -> <<LBrace>> \o MarshalMembers(x.o) \o <<RBrace>>
MarshalElems(xs) ==
    IF xs = <<>> THEN <<>>
    ELSE IF Len(xs) = 1 THEN Marshal(xs[1])
    ELSE Marshal(xs[1]) \o <<Comma>> \o MarshalElems(Tail(xs))
MarshalMembers(ms) ==
    IF ms = <<>> THEN <<>>
    ELSE LET m == <<StrTok(ms[1].key), Colon>> \o Marshal(ms[1].val)
         IN  IF Len(ms) = 1 THEN m ELSE m \o <<Comma>> \o MarshalMembers(Tail(ms))

ParseFail == [ok |-> FALSE, val |-> NilV, n |-> 0]
ParseOk(x, n) == [ok |-> TRUE, val |-> x, n |-> n]
KindAt(b, i) == IF i <= Len(b) THEN b[i].k ELSE "eof"

RECURSIVE ParseValue(_, _)
RECURSIVE ParseElems(_, _, _)
RECURSIVE ParseMembers(_, _, _)
ParseValue(b, i) ==
    CASE KindAt(b, i) = "str"  -> ParseOk(StrV(b[i].v), i + 1)
      [] KindAt(b, i) = "num"  -> ParseOk(NumV, i + 1)
      [] KindAt(b, i) = "null" -> ParseOk(NilV, i + 1)
      [] KindAt(b, i) = "["    ->
            IF KindAt(b, i + 1) = "]" THEN ParseOk(ArrV(<<>>), i + 2)
            ELSE ParseElems(b, i + 1, <<>>)
      [] KindAt(b, i) = "{"    ->
            IF KindAt(b, i + 1) = "}" THEN ParseOk(ObjV(<<>>), i + 2)
            ELSE ParseMembers(b, i + 1, <<>>)
      [] OTHER -> ParseFail
ParseElems(b, i, acc) ==
    LET r == ParseValue(b, i) IN
    IF ~r.ok THEN ParseFail
    ELSE IF KindAt(b, r.n) = "," THEN ParseElems(b, r.n + 1, Append(acc, r.val))
    ELSE IF KindAt(b, r.n) = "]" THEN ParseOk(ArrV(Append(acc, r.val)), r.n + 1)
    ELSE ParseFail
ParseMembers(b, i, acc) ==
    IF KindAt(b, i) # "str" \/ KindAt(b, i + 1) # ":" THEN ParseFail
    ELSE LET r == ParseValue(b, i + 2) IN
         IF ~r.ok THEN ParseFail
         ELSE LET ms == Append(acc, Member(b[i].v, r.val)) IN
              IF KindAt(b, r.n) = "," THEN ParseMembers(b, r.n + 1, ms)
              ELSE IF KindAt(b, r.n) = "}" THEN ParseOk(ObjV(ms), r.n + 1)
              ELSE ParseFail

IsNotWs(t) == t.k # "ws"

\* json.Unmarshal(body, &jsonData) with jsonData a map[string]any: the whole
\* body must be one JSON value, an object (null leaves the map empty)
Unmarshal(b) ==
    LET toks == SelectSeq(b, IsNotWs)
        r == ParseValue(toks, 1)
    IN  IF r.ok /\ r.n = Len(toks) + 1 /\ r.val.t \in {"obj", "nil"}
        THEN [ok |-> TRUE, val |-> IF r.val.t = "nil" THEN ObjV(<<>>) ELSE r.val]
        ELSE [ok |-> FALSE, val |-> ObjV(<<>>)]

\* m[key] on a decoded map: the last member of that name wins, nil when absent
RECURSIVE Get(_, _)
Get(ms, key) ==
    IF ms = <<>> THEN NilV
    ELSE IF ms[Len(ms)].key = key THEN ms[Len(ms)].val
    ELSE Get(SubSeq(ms, 1, Len(ms) - 1), key)

----------------------------------------------------------------------------
(* Errors and results *)

NoErr == [src |-> "nil", msg |-> <<>>]
ErrNew(text) == [src |-> "errors.New", msg |-> <<TextTok(<<text>>)>>]
ErrBody(b) == [src |-> "errors.New", msg |-> b]      \* errors.New(string(body))
ErrJson == [src |-> "json", msg |-> <<>>]            \* json.Unmarshal's error
ErrHttp == [src |-> "http", msg |-> <<>>]            \* client.Do's error
ErrRead == [src |-> "io", msg |-> <<>>]              \* io.ReadAll's error
ErrUnavailable == ErrNew("timed out while waiting for llama.cpp")

Failure(e) == [val |-> <<>>, err |-> e]
Success(s) == [val |-> s, err |-> NoErr]
NoRes == [val |-> <<>>, err |-> [src |-> "none", msg |-> <<>>]]

Key(name) == <<name>>

\* the "Check if json" test on the raw body
LooksPlainNoLen(b) == b = <<>> \/ FirstByte(b) # "{"

LooksPlain(b) == Len(b) > 0 /\ FirstByte(b) # "{"

\* Chat, from the body read to the return
ChatExtractLast(doc) ==
    LET choices == Get(doc.o, Key("choices")) IN
    IF choices.t # "arr"
    THEN Failure(ErrNew("json parsing failure, missing choices field"))
    ELSE IF Len(choices.a) = 0
    THEN Failure(ErrNew("json parsing failure, field choices is empty"))
    ELSE LET choice == choices.a[Len(choices.a)] IN
    IF choice.t # "obj"
    THEN Failure(ErrNew("json parsing failure, failed to get choice"))
    ELSE LET message == Get(choice.o, Key("message")) IN
    IF message.t # "obj"
    THEN Failure(ErrNew("json parsing failure, missing message field"))
    ELSE LET content == Get(message.o, Key("content")) IN
    IF content.t # "str"
    THEN Failure(ErrNew("json parsing failure, missing content field"))
    ELSE Success(TrimSpace(content.s))

ChatExtractNoEmptyCheck(doc) ==
    LET choices == Get(doc.o, Key("choices")) IN
    IF choices.t # "arr"
    THEN Failure(ErrNew("json parsing failure, missing choices field"))
    ELSE LET choice == IF Len(choices.a) = 0 THEN NilV ELSE choices.a[1] IN
    IF choice.t # "obj"
    THEN Failure(ErrNew("json parsing failure, failed to get choice"))
    ELSE LET message == Get(choice.o, Key("message")) IN
    IF message.t # "obj"
    THEN Failure(ErrNew("json parsing failure, missing message field"))
    ELSE LET content == Get(message.o, Key("content")) IN
    IF content.t # "str"
    THEN Failure(ErrNew("json parsing failure, missing content field"))
    ELSE Success(TrimSpace(content.s))

ChatExtract(doc) ==
    LET choices == Get(doc.o, Key("choices")) IN
    IF choices.t # "arr"
    THEN Failure(ErrNew("json parsing failure, missing choices field"))
    ELSE IF Len(choices.a) = 0
    THEN Failure(ErrNew("json parsing failure, field choices is empty"))
    ELSE LET choice == choices.a[1] IN
    IF choice.t # "obj"
    THEN Failure(ErrNew("json parsing failure, failed to get choice"))
    ELSE LET message == Get(choice.o, Key("message")) IN
    IF message.t # "obj"
    THEN Failure(ErrNew("json parsing failure, missing message field"))
    ELSE LET content == Get(message.o, Key("content")) IN
    IF content.t # "str"
    THEN Failure(ErrNew("json parsing failure, missing content field"))
    ELSE Success(TrimSpace(content.s))

\* Complete, from the decoded document to the return
CompleteExtract(doc) ==
    LET content == Get(doc.o, Key("content")) IN
    IF content.t # "str"
    THEN Failure(ErrNew("json parsing failure, missing content field"))
    ELSE Success(TrimSpace(content.s))

Extract(o, doc) == IF o = "chat" THEN ChatExtract(doc) ELSE CompleteExtract(doc)

\* both styles, from the body read to the return
Decode(o, b) ==
    IF LooksPlain(b) THEN Failure(ErrBody(b))
    ELSE LET u == Unmarshal(b) IN
         IF ~u.ok THEN Failure(ErrJson) ELSE Extract(o, u.val)

----------------------------------------------------------------------------
(* Requests *)

TokenLimitNoDefault(maxTokens) == IF maxTokens < 0 THEN DefaultMaxTokens ELSE maxTokens

TokenLimit(maxTokens) == IF maxTokens <= 0 THEN DefaultMaxTokens ELSE maxTokens

NoReq == [url |-> "", payload |-> "", limitField |-> "", limit |-> 0, stop |-> <<>>]

BuildRequest(o, maxTokens) ==
    IF o = "chat"
    THEN [url |-> "/v1/chat/completions", payload |-> "messages",
          limitField |-> "max_tokens", limit |-> TokenLimit(maxTokens),
          stop |-> <<"<|">>]
    ELSE [url |-> "/completion", payload |-> "prompt",
          limitField |-> "n_predict", limit |-> TokenLimit(maxTokens),
          stop |-> <<"<|">>]

(* Answers of the health endpoint: a transport error or a status code *)

NoAnswer == [err |-> TRUE, status |-> -1]
TransportError == [err |-> TRUE, status |-> 0]
Status(n) == [err |-> FALSE, status |-> n]

ReadyLoose(a) == ~a.err /\ a.status <= ReadyBelow

Ready(a) == ~a.err /\ a.status < ReadyBelow

(* Outcomes of the POST: client.Do fails, io.ReadAll fails, or a body *)

PostFails == [kind |-> "transport", b |-> <<>>]
ReadFails == [kind |-> "read", b |-> <<>>]
Body(b) == [kind |-> "body", b |-> b]
NoBody == [kind |-> "none", b |-> <<>>]

----------------------------------------------------------------------------
(* The handle: New and Close *)

\* isPathExist: (false, nil) when absent, (false, err) when os.Open fails
\* otherwise, (true, nil) when the file opens
isPathExist(f) == [exists |-> f = "present", err |-> f = "unopenable"]

\* what x.proc.Process.Kill() does for each state of x.proc; Kill may fail
CloseOutcomes(p) ==
    IF p \in {"nil", "unstarted"} THEN {"panic"} ELSE {"nil", "err"}

\* New without the presence check
NewLaunchAlways ==
    /\ ~hasHandle /\ ~crashed
    /\ hasHandle' = TRUE
    /\ IF ~cwdOk
       THEN /\ newErr' = "getwd"
            /\ UNCHANGED <<proc, launched>>
       ELSE \E started \in BOOLEAN :
               IF started
               THEN /\ proc' = "running"
                    /\ launched' = launched + 1
                    /\ newErr' = "nil"
               ELSE /\ proc' = "unstarted"
                    /\ newErr' = "start"
                    /\ UNCHANGED launched
    /\ UNCHANGED <<serverFile, cwdOk, isConn, closeRes, crashed, succeeded>>
    /\ UNCHANGED <<callVars, waitVars>>
    /\ UNCHANGED <<waited, restVars>>

New ==
    /\ ~hasHandle /\ ~crashed
    /\ hasHandle' = TRUE
    /\ IF ~cwdOk
       THEN /\ newErr' = "getwd"
            /\ UNCHANGED <<proc, launched>>
       ELSE IF ~isPathExist(serverFile).exists
       THEN /\ newErr' = "could not find llama.cpp binaries, run DownloadRequirements to fix"
            /\ UNCHANGED <<proc, launched>>
       ELSE \E started \in BOOLEAN :
               IF started
               THEN /\ proc' = "running"
                    /\ launched' = launched + 1
                    /\ newErr' = "nil"
               ELSE /\ proc' = "unstarted"
                    /\ newErr' = "start"
                    /\ UNCHANGED launched
    /\ UNCHANGED <<serverFile, cwdOk, isConn, closeRes, crashed, succeeded>>
    /\ UNCHANGED <<callVars, waitVars>>
    /\ UNCHANGED <<waited, restVars>>

\* a Close that also clears x.isConn
CloseResets ==
    /\ hasHandle /\ ~crashed
    /\ \E r \in CloseOutcomes(proc) :
          /\ closeRes' = r
          /\ crashed' = (r = "panic")
          /\ proc' = IF r = "nil" THEN "killed" ELSE proc
    /\ isConn' = FALSE
    /\ UNCHANGED <<serverFile, cwdOk, hasHandle, launched, newErr, succeeded>>
    /\ UNCHANGED <<callVars, waitVars>>
    /\ UNCHANGED <<waited, restVars>>

Close ==
    /\ hasHandle /\ ~crashed
    /\ \E r \in CloseOutcomes(proc) :
          /\ closeRes' = r
          /\ crashed' = (r = "panic")
          /\ proc' = IF r = "nil" THEN "killed" ELSE proc
    /\ UNCHANGED <<serverFile, cwdOk, hasHandle, isConn, launched, newErr, succeeded>>
    /\ UNCHANGED <<callVars, waitVars>>
    /\ UNCHANGED <<waited, restVars>>

----------------------------------------------------------------------------
(* Chat and Complete.  A call that begins after a successful call has      *)
(* returned is ordered after it and reads the x.isConn it wrote.  A call   *)
(* that overlaps the first successful call reads x.isConn without          *)
(* synchronisation and may see either value.                               *)

ReadIsConn == IF isConn /\ ~succeeded THEN {TRUE, FALSE} ELSE {isConn}

\* the POST leaves: lines 160-179 and 249-268
SendPost(c, o, maxTokens) ==
    /\ pc' = [pc EXCEPT ![c] = "post"]
    /\ posts' = [posts EXCEPT ![c] = @ + 1]
    /\ req' = [req EXCEPT ![c] = BuildRequest(o, maxTokens)]

\* entry: the maxTokens default and the test of x.isConn
Call(c, o, maxTokens) ==
    /\ hasHandle /\ ~crashed
    /\ pc[c] = "idle"
    /\ op' = [op EXCEPT ![c] = o]
    /\ arg' = [arg EXCEPT ![c] = maxTokens]
    /\ late' = [late EXCEPT ![c] = succeeded]
    /\ \E v \in ReadIsConn :
          /\ sawConn' = [sawConn EXCEPT ![c] = v]
          /\ IF v
             THEN SendPost(c, o, maxTokens)
             ELSE /\ pc' = [pc EXCEPT ![c] = "sleep"]
                  /\ UNCHANGED <<posts, req>>
    /\ idx' = [idx EXCEPT ![c] = 0]
    /\ UNCHANGED <<probes, slept, lastSleep, lastProbe, body, res>>
    /\ UNCHANGED <<handleVars, waitVars>>
    /\ UNCHANGED <<waited, restVars>>

\* the sleep before attempt i
SleepBefore(i) == Second * i

\* time.Sleep(time.Second * i), then the HEAD request leaves
SleepProbe(c) ==
    /\ ~crashed
    /\ pc[c] = "sleep"
    /\ slept' = [slept EXCEPT ![c] = @ + SleepBefore(idx[c])]
    /\ lastSleep' = [lastSleep EXCEPT ![c] = SleepBefore(idx[c])]
    /\ probes' = [probes EXCEPT ![c] = @ + 1]
    /\ pc' = [pc EXCEPT ![c] = "head"]
    /\ UNCHANGED <<op, arg, idx, late, sawConn, lastProbe, posts, req, body, res>>
    /\ UNCHANGED <<handleVars, waitVars>>
    /\ UNCHANGED <<waited, restVars>>

\* the loop's exit test after a failed attempt
GiveUpNever(i) == FALSE

GiveUp(i) == i = LastAttempt

\* the HEAD request is answered
ProbeResponse(c, a) ==
    /\ ~crashed
    /\ pc[c] = "head"
    /\ lastProbe' = [lastProbe EXCEPT ![c] = a]
    /\ IF Ready(a)
       THEN /\ SendPost(c, op[c], arg[c])
            /\ UNCHANGED <<idx, res>>
       ELSE IF GiveUp(idx[c])
       THEN /\ pc' = [pc EXCEPT ![c] = "ret"]
            /\ res' = [res EXCEPT ![c] = Failure(ErrUnavailable)]
            /\ UNCHANGED <<idx, posts, req>>
       ELSE IF idx[c] + 1 < ProbeAttempts
       THEN /\ idx' = [idx EXCEPT ![c] = @ + 1]
            /\ pc' = [pc EXCEPT ![c] = "sleep"]
            /\ UNCHANGED <<posts, req, res>>
       ELSE /\ SendPost(c, op[c], arg[c])       \* the range is exhausted
            /\ UNCHANGED <<idx, res>>
    /\ UNCHANGED <<op, arg, late, sawConn, probes, slept, lastSleep, body>>
    /\ UNCHANGED <<handleVars, waitVars>>
    /\ UNCHANGED <<waited, restVars>>

\* what the call returns for an outcome of its POST
Answer(o, r) ==
    CASE r.kind = "transport" -> Failure(ErrHttp)
      [] r.kind = "read" -> Failure(ErrRead)
      [] OTHER -> Decode(o, r.b)

\* x.isConn after a call that returns result
ConnAfterChatOnly(o, result) == isConn \/ (o = "chat" /\ result.err = NoErr)

\* x.isConn set by every answered POST
ConnAfterAlways(o, result) == TRUE

ConnAfter(o, result) == isConn \/ result.err = NoErr

\* a call that sends its POST again when the POST fails
PostResponseRetry(c, r) ==
    /\ ~crashed
    /\ pc[c] = "post"
    /\ body' = [body EXCEPT ![c] = r]
    /\ IF Answer(op[c], r).err = NoErr
       THEN /\ res' = [res EXCEPT ![c] = Answer(op[c], r)]
            /\ pc' = [pc EXCEPT ![c] = "ret"]
            /\ UNCHANGED posts
       ELSE /\ posts' = [posts EXCEPT ![c] = @ + 1]
            /\ UNCHANGED <<pc, res>>
    /\ isConn' = ConnAfter(op[c], Answer(op[c], r))
    /\ UNCHANGED <<op, arg, idx, late, sawConn, probes, slept, lastSleep,
                   lastProbe, req>>
    /\ UNCHANGED <<serverFile, cwdOk, hasHandle, proc, launched, newErr,
                   closeRes, crashed, succeeded>>
    /\ UNCHANGED waitVars
    /\ UNCHANGED <<waited, restVars>>

\* the POST is answered: lines 179-226 and 268-296
PostResponse(c, r) ==
    /\ ~crashed
    /\ pc[c] = "post"
    /\ body' = [body EXCEPT ![c] = r]
    /\ res' = [res EXCEPT ![c] = Answer(op[c], r)]
    /\ isConn' = ConnAfter(op[c], Answer(op[c], r))
    /\ pc' = [pc EXCEPT ![c] = "ret"]
    /\ UNCHANGED <<op, arg, idx, late, sawConn, probes, slept, lastSleep,
                   lastProbe, posts, req>>
    /\ UNCHANGED <<serverFile, cwdOk, hasHandle, proc, launched, newErr,
                   closeRes, crashed, succeeded>>
    /\ UNCHANGED waitVars
    /\ UNCHANGED <<waited, restVars>>

\* the caller receives the result
Return(c) ==
    /\ ~crashed
    /\ pc[c] = "ret"
    /\ succeeded' = (succeeded \/ res[c].err = NoErr)
    /\ pc' = [pc EXCEPT ![c] = "idle"]
    /\ op' = [op EXCEPT ![c] = "none"]
    /\ arg' = [arg EXCEPT ![c] = 0]
    /\ idx' = [idx EXCEPT ![c] = 0]
    /\ late' = [late EXCEPT ![c] = FALSE]
    /\ sawConn' = [sawConn EXCEPT ![c] = FALSE]
    /\ probes' = [probes EXCEPT ![c] = 0]
    /\ slept' = [slept EXCEPT ![c] = 0]
    /\ lastSleep' = [lastSleep EXCEPT ![c] = 0]
    /\ lastProbe' = [lastProbe EXCEPT ![c] = NoAnswer]
    /\ posts' = [posts EXCEPT ![c] = 0]
    /\ req' = [req EXCEPT ![c] = NoReq]
    /\ body' = [body EXCEPT ![c] = NoBody]
    /\ res' = [res EXCEPT ![c] = NoRes]
    /\ UNCHANGED <<serverFile, cwdOk, hasHandle, proc, isConn, launched, newErr,
                   closeRes, crashed>>
    /\ UNCHANGED waitVars
    /\ UNCHANGED <<waited, restVars>>

----------------------------------------------------------------------------
(* WaitUntilLoaded.  wNow counts the ticks since time.Now() of line 128.   *)

\* Duration.Milliseconds: integer division truncating toward zero
Milliseconds(d) ==
    IF d >= 0 THEN d \div Millisecond ELSE -((-d) \div Millisecond)

Ceiling == CeilingMinutes * Minute

\* the timeout in force: lines 124-126
EffectiveTimeout(timeout) ==
    IF Milliseconds(timeout) <= 0 THEN Ceiling ELSE timeout

\* entry up to the first loop test; the clock may move in between
WaitCall(timeout, lag) ==
    /\ hasHandle /\ ~crashed
    /\ wPc = "idle"
    /\ wArg' = timeout
    /\ wDeadline' = EffectiveTimeout(timeout)
    /\ wNow' = lag
    /\ wPc' = "check"
    /\ UNCHANGED <<wPolls, wGap, wLast, wRes>>
    /\ UNCHANGED <<handleVars, callVars>>
    /\ UNCHANGED <<waited, restVars>>

\* the loop condition
BeforeDeadline(now, deadline) == now < deadline

\* time.Now().Before(timeoutTime): poll again, or return "time out"
WaitCheck ==
    /\ ~crashed
    /\ wPc = "check"
    /\ IF BeforeDeadline(wNow, wDeadline)
       THEN /\ wPc' = "head"
            /\ wPolls' = IF wPolls < 2 THEN wPolls + 1 ELSE 2
            /\ UNCHANGED wRes
       ELSE /\ wPc' = "ret"
            /\ wRes' = "time out"
            /\ UNCHANGED wPolls
    /\ UNCHANGED <<wArg, wDeadline, wNow, wGap, wLast>>
    /\ UNCHANGED <<handleVars, callVars>>
    /\ UNCHANGED <<waited, restVars>>

\* a WaitUntilLoaded that marks the handle connected when the worker is ready
WaitResponseMarks(a, took) ==
    /\ ~crashed
    /\ wPc = "head"
    /\ wLast' = a
    /\ wNow' = wNow + took
    /\ wGap' = 0
    /\ IF Ready(a)
       THEN /\ wPc' = "ret"
            /\ wRes' = "nil"
            /\ isConn' = TRUE
       ELSE /\ wPc' = "sleep"
            /\ UNCHANGED <<wRes, isConn>>
    /\ UNCHANGED <<wArg, wDeadline, wPolls>>
    /\ UNCHANGED <<serverFile, cwdOk, hasHandle, proc, launched, newErr,
                   closeRes, crashed, succeeded>>
    /\ UNCHANGED callVars
    /\ UNCHANGED <<waited, restVars>>

\* the HEAD request is answered after took ticks
WaitResponse(a, took) ==
    /\ ~crashed
    /\ wPc = "head"
    /\ wLast' = a
    /\ wNow' = wNow + took
    /\ wGap' = 0
    /\ IF Ready(a)
       THEN /\ wPc' = "ret"
            /\ wRes' = "nil"
       ELSE /\ wPc' = "sleep"
            /\ UNCHANGED wRes
    /\ UNCHANGED <<wArg, wDeadline, wPolls>>
    /\ UNCHANGED <<handleVars, callVars>>
    /\ UNCHANGED <<waited, restVars>>

\* time.Sleep(time.Second * 1)
WaitSleep ==
    /\ ~crashed
    /\ wPc = "sleep"
    /\ wNow' = wNow + Second
    /\ wGap' = wGap + Second
    /\ wPc' = "check"
    /\ UNCHANGED <<wArg, wDeadline, wPolls, wLast, wRes>>
    /\ UNCHANGED <<handleVars, callVars>>
    /\ UNCHANGED <<waited, restVars>>

\* the caller receives the error
WaitReturn ==
    /\ ~crashed
    /\ wPc = "ret"
    /\ wPc' = "idle"
    /\ wArg' = 0
    /\ wDeadline' = 0
    /\ wNow' = 0
    /\ wPolls' = 0
    /\ wGap' = 0
    /\ wLast' = NoAnswer
    /\ wRes' = "none"
    /\ UNCHANGED <<handleVars, callVars>>
    /\ waited' = (waited \/ wRes = "nil")
    /\ UNCHANGED restVars

----------------------------------------------------------------------------
(* The file system.  A path is the sequence of its components below the    *)
(* root; fs maps each path that exists to its kind and to whether it was   *)
(* there when the latest DownloadRequirements call began.                  *)

Cwd == <<"app">>                                  \* what os.Getwd returns
ParentDir == ".."

\* path.Clean on a rooted path: ".." removes the component before it
RECURSIVE Clean(_)
Clean(p) ==
    IF p = <<>> THEN <<>>
    ELSE LET front == Clean(SubSeq(p, 1, Len(p) - 1))
             last == p[Len(p)]
         IN  IF last = ParentDir
             THEN IF front = <<>> THEN <<>> ELSE SubSeq(front, 1, Len(front) - 1)
             ELSE Append(front, last)

\* path.Join
Join(a, b) == Clean(a \o b)

\* filepath.Dir of a cleaned path
Dir(p) == IF p = <<>> THEN <<>> ELSE SubSeq(p, 1, Len(p) - 1)

\* p is d or lies below d
Within(p, d) == Len(p) >= Len(d) /\ SubSeq(p, 1, Len(d)) = d
Below(p, d) == Len(p) > Len(d) /\ SubSeq(p, 1, Len(d)) = d

WorkerDir == Join(Cwd, <<"llamacpp">>)                       \* dirPath
ServerPath == Join(Cwd, <<"llamacpp", "llama-server.exe">>)  \* serverPath
ZipPath == Join(Cwd, <<"llamacpp", "llamacpp.zip">>)         \* zipPath

OldFile == [kind |-> "file", old |-> TRUE]
OldDir == [kind |-> "dir", old |-> TRUE]
NewFile == [kind |-> "file", old |-> FALSE]
NewDir == [kind |-> "dir", old |-> FALSE]

IsFile(f, p) == p \in DOMAIN f /\ f[p].kind = "file"
IsDir(f, p) == p = <<>> \/ (p \in DOMAIN f /\ f[p].kind = "dir")

\* the directories on the way to p, p included
Ancestors(p) == {SubSeq(p, 1, n) : n \in 1..Len(p)}

\* a RemoveAll that removes nothing
RemoveAllNothing(f, d) == f

\* os.RemoveAll(d), when it succeeds
RemoveAll(f, d) == [q \in {r \in DOMAIN f : ~Within(r, d)} |-> f[q]]

\* os.MkdirAll(d): fails when a file is in the way
MkdirAllOk(f, d) == \A a \in Ancestors(d) : ~IsFile(f, a)
MkdirAll(f, d) ==
    [q \in DOMAIN f \cup Ancestors(d) |-> IF q \in DOMAIN f THEN f[q] ELSE NewDir]

\* a file created or truncated at p
WriteFile(f, p) == [q \in DOMAIN f \cup {p} |-> IF q = p THEN NewFile ELSE f[q]]

\* the state of llama-server.exe that isPathExist looks at
ServerAfter(f, before) ==
    IF ServerPath \notin DOMAIN f THEN "absent"
    ELSE IF f[ServerPath].old THEN before ELSE "present"

\* a file system in which llama-server.exe is as serverFile says, with the
\* other files given
FsWith(server, others) ==
    LET files == others \cup (IF server = "absent" THEN {} ELSE {ServerPath})
        dirs == {Cwd} \cup UNION {Ancestors(Dir(q)) : q \in files}
    IN  [q \in files \cup dirs |-> IF q \in files THEN OldFile ELSE OldDir]

----------------------------------------------------------------------------
(* getDownloadUrl.  Text is a sequence of characters here, so that the     *)
(* pieces of a url can be looked for in it.                                *)

OS_WIN == 0
OS_MAC == 1
OS_UBUNTU == 2
ARCH_x64 == 0
ARCH_ARM == 1
HW_CPU == 0
HW_CUDA == 1
HW_VULKAN == 2
HW_RADEON == 3
HW_NONE == 4

lcp_VERSION == <<"b", "6", "2", "0", "9">>
ReleaseBase == <<"h", "t", "t", "p", "s", ":", "/", "/", "g", "i", "t", "h", "u", "b", ".", "c", "o", "m", "/", "g", "g", "m", "l", "-", "o", "r", "g", "/", "l", "l", "a", "m", "a", ".", "c", "p", "p", "/", "r", "e", "l", "e", "a", "s", "e", "s", "/", "d", "o", "w", "n", "l", "o", "a", "d", "/">>
LlamaDash == <<"/", "l", "l", "a", "m", "a", "-">>
BinDash == <<"-", "b", "i", "n", "-">>
Dash == <<"-">>
DotZip == <<".", "z", "i", "p">>

osNames == (OS_WIN :> <<"w", "i", "n">>) @@ (OS_MAC :> <<"m", "a", "c", "o", "s">>) @@ (OS_UBUNTU :> <<"u", "b", "u", "n", "t", "u">>)
archNames == (ARCH_x64 :> <<"x", "6", "4">>) @@ (ARCH_ARM :> <<"a", "r", "m", "6", "4">>)
hwNames == (HW_CPU :> <<"c", "p", "u">>) @@ (HW_CUDA :> <<"c", "u", "d", "a", "-", "1", "2", ".", "4">>)
           @@ (HW_VULKAN :> <<"v", "u", "l", "k", "a", "n">>)
           @@ (HW_RADEON :> <<"h", "i", "p", "-", "r", "a", "d", "e", "o", "n">>)
           @@ (HW_NONE :> <<>>)

\* m[k] on a Go map[int]string: the empty string for a key it lacks
NameIn(m, k) == IF k \in DOMAIN m THEN m[k] ELSE <<>>

\* the hardware of the build chosen, by operating system
HardwareForHonoured(opSys, hardware) ==
    IF hardware = HW_NONE /\ opSys = OS_WIN THEN HW_CPU ELSE hardware

HardwareFor(opSys, hardware) ==
    CASE opSys = OS_WIN -> IF hardware = HW_NONE THEN HW_CPU ELSE hardware
      [] opSys = OS_MAC -> HW_NONE
      [] opSys = OS_UBUNTU -> IF hardware = HW_VULKAN THEN HW_VULKAN ELSE HW_NONE

\* the name of the release file
ReleaseNameArchFirst(opSys, arch, hw) ==
    ReleaseBase \o lcp_VERSION \o LlamaDash \o lcp_VERSION \o BinDash
        \o NameIn(osNames, opSys) \o Dash
        \o NameIn(archNames, arch)
        \o (IF hw # HW_NONE THEN Dash \o NameIn(hwNames, hw) ELSE <<>>)
        \o DotZip

ReleaseName(opSys, arch, hw) ==
    ReleaseBase \o lcp_VERSION \o LlamaDash \o lcp_VERSION \o BinDash
        \o NameIn(osNames, opSys) \o Dash
        \o (IF hw # HW_NONE THEN NameIn(hwNames, hw) \o Dash ELSE <<>>)
        \o NameIn(archNames, arch) \o DotZip

UrlError(text) == [url |-> <<>>, err |-> text]
UrlOk(u) == [url |-> u, err |-> "nil"]
NoUrl == [url |-> <<>>, err |-> "none"]

\* the switch on runtime.GOOS and the switch on runtime.GOARCH
OpSysOf(goos) ==
    CASE goos = "windows" -> OS_WIN
      [] goos = "darwin" -> OS_MAC
      [] goos = "linux" -> OS_UBUNTU

ArchOf(goarch) ==
    CASE goarch = "amd64" -> ARCH_x64
      [] goarch = "arm64" -> ARCH_ARM

getDownloadUrl(goos, goarch, hardware) ==
    IF goos \notin {"windows", "darwin", "linux"}
    THEN UrlError("unsupported operating system")
    ELSE IF goarch \notin {"amd64", "arm64"}
    THEN UrlError("unsupported cpu architecture")
    ELSE LET opSys == OpSysOf(goos)
             arch == ArchOf(goarch)
         IN  UrlOk(ReleaseName(opSys, arch, HardwareFor(opSys, hardware)))

\* a caller asks for the url of a build
Resolve(hardware) ==
    /\ rHw' = hardware
    /\ rOut' = getDownloadUrl(hostOs, hostArch, hardware)
    /\ UNCHANGED <<handleVars, callVars, waitVars, waited, hostVars, provVars>>

----------------------------------------------------------------------------
(* DownloadRequirements *)

\* the answer to client.Get: a transport error, or a status with a body.
\* text is the body, got the number of its chunks that arrive before the
\* stream breaks (all of them when it does not); zip tells whether the body
\* is a zip archive and entries lists the files and directories in it.
Reply(failed, code, text, got, zip, entries) ==
    [failed |-> failed, code |-> code, text |-> text, got |-> got,
     zip |-> zip, entries |-> entries]
NoReply == Reply(FALSE, 0, <<>>, 0, FALSE, <<>>)

\* what io.ReadAll and the read loop get of the body
BodyRead(r) == SubSeq(r.text, 1, r.got)
ReadBroke(r) == r.got < Len(r.text)

\* the status test of line 403
FetchFailedAbove(code) == code > 300

FetchFailed(code) == code >= 300

ErrOs(call) == [src |-> call, msg |-> <<>>]

IsRequDownloaded == isPathExist(serverFile).exists

\* the files the worker directory holds
FilesIn(f, d) == {q \in DOMAIN f : Below(q, d) /\ f[q].kind = "file"}

\* every file and directory becomes one that was there before the call
Aged(f) == [q \in DOMAIN f |-> [f[q] EXCEPT !.old = TRUE]]

\* lines 377-387: the url and the working directory
DownloadRequirements(hardware) ==
    /\ pPc = "idle"
    /\ LET out == getDownloadUrl(hostOs, hostArch, hardware) IN
          /\ rHw' = hardware
          /\ rOut' = out
          /\ IF out.err # "nil"
             THEN pRes' = ErrNew(out.err) /\ pPc' = "ret"
             ELSE IF ~cwdOk
             THEN pRes' = ErrOs("os.Getwd") /\ pPc' = "ret"
             ELSE pRes' = NoRes.err /\ pPc' = "clear"
    /\ fs' = Aged(fs)
    /\ pHad' = IsRequDownloaded
    /\ pOld' = FilesIn(fs, WorkerDir)
    /\ pReply' = NoReply
    /\ pNext' = 1
    /\ pWrote' = {}
    /\ UNCHANGED <<handleVars, callVars, waitVars, waited, hostVars>>

\* lines 388-396: os.RemoveAll, which may stop at a file it cannot remove,
\* then os.MkdirAll
ClearDir ==
    /\ pPc = "clear"
    /\ \/ \E gone \in SUBSET FilesIn(fs, WorkerDir) :
             /\ fs' = [q \in DOMAIN fs \ gone |-> fs[q]]
             /\ pRes' = ErrOs("os.RemoveAll")
             /\ pPc' = "ret"
       \/ /\ fs' = RemoveAll(fs, WorkerDir)
          /\ pRes' = ErrOs("os.MkdirAll")
          /\ pPc' = "ret"
       \/ /\ MkdirAllOk(RemoveAll(fs, WorkerDir), WorkerDir)
          /\ fs' = MkdirAll(RemoveAll(fs, WorkerDir), WorkerDir)
          /\ pPc' = "get"
          /\ UNCHANGED pRes
    /\ serverFile' = ServerAfter(fs', serverFile)
    /\ UNCHANGED <<cwdOk, hasHandle, proc, isConn, launched, newErr, closeRes,
                   crashed, succeeded>>
    /\ UNCHANGED <<pHad, pOld, pReply, pNext, pWrote>>
    /\ UNCHANGED <<callVars, waitVars, waited, hostVars, urlVars>>

\* lines 398-407: the GET and the test of its status
GetArchive(r) ==
    /\ pPc = "get"
    /\ pReply' = r
    /\ IF r.failed
       THEN pRes' = ErrHttp /\ pPc' = "ret"
       ELSE IF FetchFailed(r.code)
       THEN pRes' = ErrBody(BodyRead(r)) /\ pPc' = "ret"
       ELSE pPc' = "save" /\ UNCHANGED pRes
    /\ UNCHANGED <<fs, pHad, pOld, pNext, pWrote>>
    /\ UNCHANGED <<handleVars, callVars, waitVars, waited, hostVars, urlVars>>

\* lines 409-439: the body is written to llamacpp.zip and opened as an
\* archive
SaveArchive ==
    /\ pPc = "save"
    /\ \/ /\ pRes' = ErrOs("os.OpenFile")
          /\ pPc' = "ret"
          /\ UNCHANGED fs
       \/ /\ fs' = WriteFile(fs, ZipPath)
          /\ IF ReadBroke(pReply)
             THEN pRes' = ErrRead /\ pPc' = "ret"
             ELSE IF ~pReply.zip
             THEN pRes' = ErrOs("zip.OpenReader") /\ pPc' = "ret"
             ELSE pPc' = "extract" /\ UNCHANGED pRes
    /\ UNCHANGED <<pHad, pOld, pReply, pNext, pWrote>>
    /\ UNCHANGED <<handleVars, callVars, waitVars, waited, hostVars, urlVars>>

\* where the loop of lines 441-470 puts an entry
EntryPath(name) == Join(WorkerDir, name)

\* lines 441-470: one turn of the loop over archive.File, or its end.
\* fault names the call of the turn that fails, "none" when none does.
ExtractEntry(fault) ==
    /\ pPc = "extract"
    /\ IF pNext > Len(pReply.entries)
       THEN /\ fault = "none"
            /\ pRes' = NoErr
            /\ pPc' = "ret"
            /\ UNCHANGED <<fs, pNext, pWrote>>
       ELSE LET f == pReply.entries[pNext]
                fPath == EntryPath(f.name)
                made == IF MkdirAllOk(fs, Dir(fPath))
                        THEN MkdirAll(fs, Dir(fPath)) ELSE fs
                written == WriteFile(made, fPath)
            IN  IF f.dir
                THEN /\ fault \in {"none", "os.MkdirAll"}
                     /\ fs' = IF fault = "none" /\ MkdirAllOk(fs, fPath)
                              THEN MkdirAll(fs, fPath) ELSE fs
                     /\ pWrote' = pWrote \cup (DOMAIN fs' \ DOMAIN fs)
                     /\ pNext' = pNext + 1
                     /\ UNCHANGED <<pPc, pRes>>
                ELSE IF fault = "os.MkdirAll" \/ ~MkdirAllOk(fs, Dir(fPath))
                THEN /\ fault \in {"none", "os.MkdirAll"}
                     /\ pRes' = ErrOs("os.MkdirAll")
                     /\ pPc' = "ret"
                     /\ UNCHANGED <<fs, pNext, pWrote>>
                ELSE IF fault = "os.OpenFile" \/ IsDir(made, fPath)
                THEN /\ fault \in {"none", "os.OpenFile"}
                     /\ fs' = made
                     /\ pWrote' = pWrote \cup (DOMAIN made \ DOMAIN fs)
                     /\ pRes' = ErrOs("os.OpenFile")
                     /\ pPc' = "ret"
                     /\ UNCHANGED pNext
                ELSE /\ fs' = written
                     /\ pWrote' = pWrote \cup (DOMAIN written \ DOMAIN fs) \cup {fPath}
                     /\ IF fault = "none"
                        THEN pNext' = pNext + 1 /\ UNCHANGED <<pPc, pRes>>
                        ELSE /\ pRes' = ErrOs(fault)
                             /\ pPc' = "ret"
                             /\ UNCHANGED pNext
    /\ serverFile' = ServerAfter(fs', serverFile)
    /\ UNCHANGED <<cwdOk, hasHandle, proc, isConn, launched, newErr, closeRes,
                   crashed, succeeded>>
    /\ UNCHANGED <<pHad, pOld, pReply>>
    /\ UNCHANGED <<callVars, waitVars, waited, hostVars, urlVars>>

Faults == {"none", "os.MkdirAll", "os.OpenFile", "zip.Open", "io.Copy"}

\* the call returns pRes to its caller
ProvisionReturn ==
    /\ pPc = "ret"
    /\ pPc' = "idle"
    /\ UNCHANGED <<fs, pHad, pOld, pReply, pNext, pWrote, pRes>>
    /\ UNCHANGED <<handleVars, callVars, waitVars, waited, hostVars, urlVars>>

----------------------------------------------------------------------------
(* Inputs *)

\* answers of the health endpoint
Answers == {TransportError, Status(200), Status(ReadyBelow - 1),
            Status(ReadyBelow), Status(503)}
FewAnswers == {TransportError, Status(ReadyBelow - 1), Status(ReadyBelow)}

\* maxTokens arguments
TokenArgs == ((-MaxTokensArg)..MaxTokensArg)
             \cup {DefaultMaxTokens - 1, DefaultMaxTokens, DefaultMaxTokens + 1}
FewTokenArgs == {0, MaxTokensArg}

\* content strings
Contents == { <<>>, <<"hi">>, <<" ", "hi", " ", "there", "\t", " ">>,
              <<"\t", "{">>, <<" ">> }
Hi == <<" ", "hi", " ", "there", "\t", " ">>

\* what the first element of choices may be
MessageVals == {NumV, NilV, ObjV(<<>>), ObjV(<<Member(Key("content"), NumV)>>),
                ObjV(<<Member(Key("role"), StrV(<<"assistant">>)),
                       Member(Key("content"), StrV(<<"x">>)),
                       Member(Key("content"), StrV(Hi))>>)}
                \cup {ObjV(<<Member(Key("content"), StrV(s))>>) : s \in Contents}
ChoiceVals == {NumV, StrV(<<"hi">>), ArrV(<<>>), ObjV(<<>>)}
              \cup {ObjV(<<Member(Key("message"), m)>>) : m \in MessageVals}
Other == ObjV(<<Member(Key("message"), ObjV(<<Member(Key("content"), StrV(<<"other">>))>>))>>)
ChoicesVals == {NumV, NilV, ObjV(<<>>), StrV(<<"hi">>), ArrV(<<>>)}
               \cup {ArrV(<<ch>>) : ch \in ChoiceVals}
               \cup {ArrV(<<ch, Other>>) : ch \in ChoiceVals}
ContentVals == {NumV, ArrV(<<StrV(<<"hi">>)>>)} \cup {StrV(s) : s \in Contents}

\* the documents the worker may answer with
Docs == {ObjV(<<>>)}
        \cup {ObjV(<<Member(Key("choices"), ch)>>) : ch \in ChoicesVals}
        \cup {ObjV(<<Member(Key("content"), co)>>) : co \in ContentVals}
        \cup {ObjV(<<Member(Key("choices"), ArrV(<<ch>>)), Member(Key("content"), StrV(Hi))>>) :
                ch \in {NumV, Other}}

Prefixes(b) == {SubSeq(b, 1, n) : n \in 0..Len(b)}

Crash == <<TextTok(<<"engine", " ", "crashed">>)>>

\* bodies: the documents, each cut short anywhere, with leading white
\* space, behind or before plain text, and other JSON values
Bodies == UNION {Prefixes(Marshal(d)) : d \in Docs}
          \cup {<<WsTok>> \o Marshal(d) : d \in Docs}
          \cup {Marshal(d) \o <<WsTok>> : d \in Docs}
          \cup {Crash, Crash \o Marshal(Other), Marshal(Other) \o Crash,
                <<NullTok>>, <<NumTok>>, <<StrTok(Hi)>>, <<WsTok>>,
                Marshal(ArrV(<<Other>>)), <<RBrace>>,
                <<TextTok(<<"timed out while waiting for llama.cpp">>)>>}

ChatOk == Marshal(ObjV(<<Member(Key("choices"), ArrV(<<
              ObjV(<<Member(Key("message"), ObjV(<<Member(Key("content"), StrV(Hi))>>))>>)>>))>>))
CompleteOk == Marshal(ObjV(<<Member(Key("content"), StrV(Hi))>>))
FewBodies == {ChatOk, CompleteOk, Crash, <<>>}

PostOutcomes == {PostFails, ReadFails} \cup {Body(b) : b \in Bodies}
FewPostOutcomes == {PostFails} \cup {Body(b) : b \in FewBodies}

\* timeouts, in ticks: non-positive, below a millisecond, small, whole seconds
WaitArgs == ((-MaxWaitArg)..MaxWaitArg) \cup {n * Second : n \in 1..MaxWaitSeconds}
            \cup {Second + 1}
Lags == {0, Millisecond}
Durations == {0, Second}

GoosValues == {"windows", "darwin", "linux", "freebsd", "plan9"}
GoarchValues == {"amd64", "arm64", "386", "riscv64"}
Hardwares == HW_CPU .. HW_NONE

\* entries of a downloaded archive: the server binary, a directory, a file
\* in a directory, and a file named with a parent-directory component
ServerEntry == [name |-> <<"llama-server.exe">>, dir |-> FALSE]
LibDirEntry == [name |-> <<"lib">>, dir |-> TRUE]
LibFileEntry == [name |-> <<"lib", "ggml.dll">>, dir |-> FALSE]
EscapingEntry == [name |-> <<ParentDir, "evil.txt">>, dir |-> FALSE]
Entries == {ServerEntry, LibDirEntry, LibFileEntry, EscapingEntry}

Archives == UNION {[1..n -> Entries] : n \in 0..MaxEntries}

ZipBytes == <<"PK">>
NotFound == <<"Not", "Found">>

\* answers to the GET of the archive
Replies ==
    {Reply(TRUE, 0, <<>>, 0, FALSE, <<>>)}
    \cup {Reply(FALSE, 200, ZipBytes, 1, TRUE, a) : a \in Archives}
    \cup {Reply(FALSE, 200, ZipBytes, 0, TRUE, <<ServerEntry>>),
          Reply(FALSE, 200, NotFound, 2, FALSE, <<>>),
          Reply(FALSE, 299, ZipBytes, 1, TRUE, <<ServerEntry>>),
          Reply(FALSE, 300, ZipBytes, 1, TRUE, <<ServerEntry>>),
          Reply(FALSE, 404, <<>>, 0, FALSE, <<>>)}
    \cup {Reply(FALSE, 404, NotFound, n, FALSE, <<>>) : n \in 0..Len(NotFound)}

\* files that may lie around before the first call: one in the worker
\* directory, one next to it
NotesPath == Join(WorkerDir, <<"notes.txt">>)
EvilPath == Join(Cwd, <<"evil.txt">>)

----------------------------------------------------------------------------
(* Specifications *)

InitCalls ==
    /\ pc = [c \in Callers |-> "idle"]
    /\ op = [c \in Callers |-> "none"]
    /\ arg = [c \in Callers |-> 0]
    /\ idx = [c \in Callers |-> 0]
    /\ late = [c \in Callers |-> FALSE]
    /\ sawConn = [c \in Callers |-> FALSE]
    /\ probes = [c \in Callers |-> 0]
    /\ slept = [c \in Callers |-> 0]
    /\ lastSleep = [c \in Callers |-> 0]
    /\ lastProbe = [c \in Callers |-> NoAnswer]
    /\ posts = [c \in Callers |-> 0]
    /\ req = [c \in Callers |-> NoReq]
    /\ body = [c \in Callers |-> NoBody]
    /\ res = [c \in Callers |-> NoRes]

InitWait ==
    /\ wPc = "idle"
    /\ wArg = 0
    /\ wDeadline = 0
    /\ wNow = 0
    /\ wPolls = 0
    /\ wGap = 0
    /\ wLast = NoAnswer
    /\ wRes = "none"

\* before New: the working directory and the worker binary are as found
InitHost ==
    /\ hostOs = "windows"
    /\ hostArch = "amd64"

InitUrl ==
    /\ rHw = HW_NONE
    /\ rOut = NoUrl

InitProv ==
    /\ pPc = "idle"
    /\ pHad = FALSE
    /\ pOld = {}
    /\ pReply = NoReply
    /\ pNext = 1
    /\ pWrote = {}
    /\ pRes = NoRes.err

InitRest ==
    /\ waited = FALSE
    /\ InitHost
    /\ InitUrl
    /\ fs = FsWith(serverFile, {})
    /\ InitProv

Init ==
    /\ serverFile \in {"absent", "unopenable", "present"}
    /\ cwdOk \in BOOLEAN
    /\ hasHandle = FALSE
    /\ proc = "nil"
    /\ isConn = FALSE
    /\ launched = 0
    /\ newErr = "none"
    /\ closeRes = "none"
    /\ crashed = FALSE
    /\ succeeded = FALSE
    /\ InitCalls
    /\ InitWait
    /\ InitRest

\* one client goroutine drives the handle
Next ==
    \/ New
    \/ Close
    \/ \E o \in {"chat", "complete"}, n \in FewTokenArgs : Call("a", o, n)
    \/ SleepProbe("a")
    \/ \E a \in FewAnswers : ProbeResponse("a", a)
    \/ \E r \in FewPostOutcomes : PostResponse("a", r)
    \/ Return("a")

Spec == Init /\ [][Next]_vars

\* a started handle exchanging requests with every kind of answer
NextExchange ==
    \/ \E o \in {"chat", "complete"}, n \in TokenArgs : Call("a", o, n)
    \/ SleepProbe("a")
    \/ ProbeResponse("a", Status(200))
    \/ \E r \in PostOutcomes : PostResponse("a", r)
    \/ Return("a")

InitExchange ==
    /\ serverFile = "present"
    /\ cwdOk = TRUE
    /\ hasHandle = TRUE
    /\ proc = "running"
    /\ isConn = FALSE
    /\ launched = 1
    /\ newErr = "nil"
    /\ closeRes = "none"
    /\ crashed = FALSE
    /\ succeeded = FALSE
    /\ InitCalls
    /\ InitWait
    /\ InitRest

SpecExchange == InitExchange /\ [][NextExchange]_vars

\* a started handle whose caller waits for readiness
NextWait ==
    \/ \E t \in WaitArgs, lag \in Lags : WaitCall(t, lag)
    \/ WaitCheck
    \/ \E a \in FewAnswers, took \in Durations : WaitResponse(a, took)
    \/ WaitSleep
    \/ WaitReturn

SpecWait == InitExchange /\ [][NextWait]_vars

\* the steps of WaitUntilLoaded itself are taken; whether the worker ever
\* answers a request is up to the worker (the http.Client has no Timeout)
FairSpecWait ==
    /\ SpecWait
    /\ WF_vars(WaitCheck)
    /\ WF_vars(WaitSleep)
    /\ WF_vars(WaitReturn)

\* getDownloadUrl on every kind of host
InitResolve ==
    /\ serverFile = "absent"
    /\ cwdOk = TRUE
    /\ hasHandle = FALSE
    /\ proc = "nil"
    /\ isConn = FALSE
    /\ launched = 0
    /\ newErr = "none"
    /\ closeRes = "none"
    /\ crashed = FALSE
    /\ succeeded = FALSE
    /\ InitCalls
    /\ InitWait
    /\ waited = FALSE
    /\ hostOs \in GoosValues
    /\ hostArch \in GoarchValues
    /\ InitUrl
    /\ fs = FsWith(serverFile, {})
    /\ InitProv

NextResolve == \E h \in Hardwares : Resolve(h)

SpecResolve == InitResolve /\ [][NextResolve]_vars

\* DownloadRequirements on a host with or without an earlier installation
InitProvision ==
    /\ serverFile \in {"absent", "present"}
    /\ cwdOk \in BOOLEAN
    /\ hasHandle = FALSE
    /\ proc = "nil"
    /\ isConn = FALSE
    /\ launched = 0
    /\ newErr = "none"
    /\ closeRes = "none"
    /\ crashed = FALSE
    /\ succeeded = FALSE
    /\ InitCalls
    /\ InitWait
    /\ waited = FALSE
    /\ hostOs \in {"windows", "plan9"}
    /\ hostArch = "amd64"
    /\ InitUrl
    /\ \E others \in SUBSET {NotesPath, EvilPath} : fs = FsWith(serverFile, others)
    /\ InitProv

NextProvision ==
    \/ \E h \in {HW_NONE, HW_CUDA} : DownloadRequirements(h)
    \/ ClearDir
    \/ \E r \in Replies : GetArchive(r)
    \/ SaveArchive
    \/ \E fault \in Faults : ExtractEntry(fault)
    \/ ProvisionReturn

SpecProvision == InitProvision /\ [][NextProvision]_vars

\* one client goroutine uses the handle from New to Close, one operation
\* at a time but for Close
NextLife ==
    \/ New
    \/ Close
    \/ (wPc = "idle" /\ \E o \in {"chat", "complete"} : Call("a", o, 0))
    \/ SleepProbe("a")
    \/ \E a \in FewAnswers : ProbeResponse("a", a)
    \/ \E r \in FewPostOutcomes : PostResponse("a", r)
    \/ Return("a")
    \/ (pc["a"] = "idle" /\ \E t \in {Second, MaxWaitSeconds * Second} : WaitCall(t, 0))
    \/ WaitCheck
    \/ \E a \in FewAnswers, took \in Durations : WaitResponse(a, took)
    \/ WaitSleep
    \/ WaitReturn

SpecLife == Init /\ [][NextLife]_vars

\* two goroutines call Chat and Complete on a started handle at once
RaceAnswers == {TransportError, Status(200)}
RaceOutcomes == {PostFails, Body(ChatOk), Body(CompleteOk)}

NextRace ==
    \E c \in Callers :
        \/ \E o \in {"chat", "complete"} : Call(c, o, 0)
        \/ SleepProbe(c)
        \/ \E a \in RaceAnswers : ProbeResponse(c, a)
        \/ \E r \in RaceOutcomes : PostResponse(c, r)
        \/ Return(c)

SpecRace == InitExchange /\ [][NextRace]_vars

----------------------------------------------------------------------------
(* Properties *)

BinaryMissing == "could not find llama.cpp binaries, run DownloadRequirements to fix"
Below500(a) == ~a.err /\ a.status >= 0 /\ a.status < 500
SecondsBefore(n) == Second * ((n * (n - 1)) \div 2)    \* 0 + 1 + ... + (n - 1) seconds

\* C1: a call that read connectedFlag as false makes at most 10 health
\* probes, the i-th (i = 0..9) after a sleep of i seconds, 45 seconds in all
\* at worst; it sends its POST right after the first probe answered with a
\* status below 500 and after no other probe, and after 10 failed probes it
\* returns the "timed out while waiting" error having sent no POST.
C1_ProbeLoop ==
    \A c \in Callers :
        (pc[c] # "idle" /\ ~sawConn[c]) =>
            /\ probes[c] <= 10
            /\ slept[c] = SecondsBefore(probes[c])
            /\ slept[c] <= 45 * Second
            /\ probes[c] > 0 => lastSleep[c] = (probes[c] - 1) * Second
            /\ posts[c] <= 1
            /\ posts[c] = 1 => probes[c] >= 1 /\ Below500(lastProbe[c])
            /\ Below500(lastProbe[c]) => pc[c] \in {"post", "ret"} /\ posts[c] = 1
            /\ (pc[c] # "head" /\ probes[c] = 10 /\ ~Below500(lastProbe[c])) =>
                   /\ pc[c] = "ret"
                   /\ posts[c] = 0
                   /\ res[c] = Failure(ErrUnavailable)
            /\ (pc[c] = "ret" /\ posts[c] = 0) => probes[c] = 10

C1_Witness ==
    /\ pc["a"] = "ret"
    /\ ~sawConn["a"]
    /\ probes["a"] = 10
    /\ slept["a"] = 45 * Second
    /\ posts["a"] = 0
    /\ res["a"] = Failure(ErrUnavailable)

\* C2: a call that begins after some Chat or Complete call on the handle
\* has returned success issues no health probe and no sleep; it goes
\* straight to its POST, whichever style it or the earlier call was and
\* whatever happened to the handle in between.
C2_NoProbeAfterSuccess ==
    \A c \in Callers :
        (pc[c] # "idle" /\ late[c]) =>
            /\ pc[c] \in {"post", "ret"}
            /\ probes[c] = 0
            /\ slept[c] = 0
            /\ posts[c] = 1

C2_Witness ==
    /\ late["a"]
    /\ pc["a"] = "ret"
    /\ op["a"] = "chat"
    /\ probes["a"] = 0
    /\ closeRes = "nil"

\* C7: no operation on a handle crashes; every failure, that of Close
\* included, comes back to the caller as an error result, for every handle
\* the caller can hold.
C7_NoOperationCrashes == ~crashed /\ closeRes \in {"none", "nil", "err"}

\* C8 as stated: with the executable absent New returns the BinaryMissing
\* error and launches nothing; with it present New launches exactly one
\* child process.
C8_AsStated ==
    hasHandle =>
        /\ serverFile = "absent" => newErr = BinaryMissing /\ launched = 0
        /\ serverFile = "present" => launched = 1

C8_LaunchInv ==
    hasHandle =>
        /\ launched \in {0, 1}
        /\ launched = 1 <=> newErr = "nil"
        /\ launched = 1 <=> proc \in {"running", "killed"}
        /\ serverFile # "present" => launched = 0
        /\ (serverFile # "present" /\ cwdOk) => newErr = BinaryMissing
        /\ (serverFile = "present" /\ cwdOk) => newErr \in {"nil", "start"}
        /\ ~cwdOk => newErr = "getwd"

\* C8, amended: New launches no process and returns an error when the
\* executable cannot be opened (the BinaryMissing error once the working
\* directory is known); with the executable present it launches at most one
\* child process, exactly one when it returns a nil error and none when it
\* returns the error of the failed launch; the step of New issues no health
\* probe and starts no wait.
C8_Launch ==
    /\ []C8_LaunchInv
    /\ [][(~hasHandle /\ hasHandle') =>
            /\ UNCHANGED <<callVars, waitVars>>
            /\ \A c \in Callers : probes'[c] = 0 /\ pc'[c] = "idle"
            /\ wPolls' = 0 /\ wPc' = "idle"]_vars

C8_Witness ==
    /\ hasHandle
    /\ serverFile = "present"
    /\ newErr = "start"
    /\ launched = 0

----------------------------------------------------------------------------
(* Properties of the exchange *)

IsTrimOf(t, s) ==
    \E i \in 1..(Len(s) + 1) : \E j \in 0..Len(s) :
        /\ t = SubSeq(s, i, j)
        /\ \A k \in 1..(i - 1) : s[k] \in Whitespace
        /\ \A k \in (j + 1)..Len(s) : s[k] \in Whitespace
        /\ t # <<>> => t[1] \notin Whitespace /\ t[Len(t)] \notin Whitespace

Field(x, name) == IF x.t = "obj" THEN Get(x.o, Key(name)) ELSE NilV
FirstOf(x) == IF x.t = "arr" /\ Len(x.a) > 0 THEN x.a[1] ELSE NilV

\* the piece of a chat document that is missing first, "" when none is
MissingPiece(d) ==
    LET choices == Field(d, "choices")
        choice == FirstOf(choices)
        message == Field(choice, "message")
        content == Field(message, "content")
    IN  CASE choices.t # "arr" -> "json parsing failure, missing choices field"
          [] choices.a = <<>> -> "json parsing failure, field choices is empty"
          [] choice.t # "obj" -> "json parsing failure, failed to get choice"
          [] message.t # "obj" -> "json parsing failure, missing message field"
          [] content.t # "str" -> "json parsing failure, missing content field"
          [] OTHER -> ""

ChatContent(d) == Field(Field(FirstOf(Field(d, "choices")), "message"), "content")
EmptyChoices == ObjV(<<Member(Key("choices"), ArrV(<<>>))>>)

\* C5 as stated: every body that does not start with '{', the empty body
\* included, comes back as an error whose message is the body text.
C5_AsStated ==
    \A c \in Callers :
        (pc[c] = "ret" /\ body[c].kind = "body"
            /\ (body[c].b = <<>> \/ FirstByte(body[c].b) # "{")) =>
                res[c] = Failure(ErrBody(body[c].b))

\* C5, amended: for Chat and Complete alike, a non-empty body whose first
\* byte is not '{' comes back as an error whose message is the body text
\* verbatim; an empty body is handed to the JSON decoder and comes back as
\* its error; neither is ever a successful result.
C5_PlainTextBody ==
    \A c \in Callers :
        (pc[c] = "ret" /\ body[c].kind = "body") =>
            /\ (body[c].b # <<>> /\ FirstByte(body[c].b) # "{") =>
                   /\ res[c].val = <<>>
                   /\ res[c].err.src = "errors.New"
                   /\ res[c].err.msg = body[c].b
            /\ body[c].b = <<>> => res[c] = Failure(ErrJson)

C5_Witness ==
    /\ pc["a"] = "ret"
    /\ op["a"] = "complete"
    /\ body["a"] = Body(Crash)
    /\ res["a"].err.msg = Crash

\* C6: for a JSON chat response Chat returns the error that names the first
\* missing piece, in the order choices (absent or no list), choices empty,
\* choice (first element no object), message, content; an empty choices
\* list gives an error, never a success.
C6_MalformedChat ==
    \A c \in Callers :
        (pc[c] = "ret" /\ op[c] = "chat" /\ body[c].kind = "body") =>
            \A d \in Docs :
                (body[c].b = Marshal(d) /\ MissingPiece(d) # "") =>
                    /\ res[c].val = <<>>
                    /\ res[c].err = ErrNew(MissingPiece(d))

C6_Witness ==
    /\ pc["a"] = "ret"
    /\ op["a"] = "chat"
    /\ body["a"] = Body(Marshal(EmptyChoices))
    /\ res["a"] = Failure(ErrNew("json parsing failure, field choices is empty"))

\* C9: the request Chat sends carries max_tokens, the request Complete
\* sends carries n_predict, equal to 150 for every maxTokens argument that
\* is zero or negative and to the argument itself when it is positive.
C9_TokenLimit ==
    \A c \in Callers :
        posts[c] > 0 =>
            /\ req[c].limitField = (IF op[c] = "chat" THEN "max_tokens" ELSE "n_predict")
            /\ arg[c] <= 0 => req[c].limit = 150
            /\ arg[c] > 0 => req[c].limit = arg[c]

C9_Witness ==
    /\ pc["a"] = "post"
    /\ op["a"] = "complete"
    /\ arg["a"] = 0
    /\ req["a"].limitField = "n_predict"
    /\ req["a"].limit = 150

\* C10: on a well-formed response Chat returns the content of the message
\* of the first choice and Complete the top-level content, with the
\* surrounding white space trimmed and a nil error; the other choices are
\* not looked at.
C10_TrimmedContent ==
    \A c \in Callers :
        (pc[c] = "ret" /\ body[c].kind = "body") =>
            \A d \in Docs :
                body[c].b = Marshal(d) =>
                    /\ (op[c] = "chat" /\ MissingPiece(d) = "") =>
                           /\ res[c].err = NoErr
                           /\ IsTrimOf(res[c].val, ChatContent(d).s)
                    /\ (op[c] = "complete" /\ Field(d, "content").t = "str") =>
                           /\ res[c].err = NoErr
                           /\ IsTrimOf(res[c].val, Field(d, "content").s)

C10_Witness ==
    /\ pc["a"] = "ret"
    /\ op["a"] = "chat"
    /\ body["a"] = Body(Marshal(ObjV(<<Member(Key("choices"),
                        ArrV(<<ObjV(<<Member(Key("message"),
                                 ObjV(<<Member(Key("content"), StrV(Hi))>>))>>), Other>>))>>)))
    /\ res["a"] = Success(<<"hi", " ", "there">>)

----------------------------------------------------------------------------
(* Properties of WaitUntilLoaded *)

\* C3: WaitUntilLoaded sleeps one second between an answered poll and the
\* next one; it returns success at the first poll answered with a status
\* below 500 (a transport error or a status of 500 or more is no success)
\* and never without one; a poll is only started before the deadline, and a
\* return without such an answer is the "time out" error, at or after the
\* deadline.
C3_PollUntilReady ==
    /\ (wPc = "head" /\ wPolls >= 2) => wGap = Second
    /\ wPc = "head" => wNow < wDeadline /\ wPolls >= 1
    /\ Below500(wLast) => wPc = "ret" /\ wRes = "nil"
    /\ (wPc = "ret" /\ wRes = "nil") => wPolls >= 1 /\ Below500(wLast)
    /\ (wPc = "ret" /\ ~Below500(wLast)) => wRes = "time out" /\ wNow >= wDeadline
    /\ wPc = "ret" <=> wRes # "none"
    /\ wPc \in {"sleep", "check"} => ~Below500(wLast) /\ wRes = "none"

C3_Witness ==
    /\ wPc = "ret"
    /\ wRes = "nil"
    /\ wPolls = 2
    /\ wLast = Status(499)
    /\ wNow < wDeadline

\* C4: a WaitUntilLoaded call with a zero or negative timeout does not
\* return before it has polled at least once, and it does return: when the
\* health endpoint never answers, with the time-out error, within the 99
\* minutes.
C4_PollsThenReturns ==
    /\ []((wPc = "ret" /\ wArg <= 0) => wPolls >= 1)
    /\ (wPc # "idle" /\ wArg <= 0) ~> (wPc = "ret")

----------------------------------------------------------------------------
(* Properties of getDownloadUrl *)

\* the latest call returned a url
Resolved == rOut.err = "nil"

\* what getDownloadUrl returns on this host for hardware h
UrlFor(h) == getDownloadUrl(hostOs, hostArch, h)

Accelerators == Hardwares \ {HW_NONE}

(* C11: on macOS every requested accelerator resolves to the url of None;  *)
(* on Linux every accelerator but Vulkan resolves to the url of None and   *)
(* Vulkan to another url; on Windows None resolves to the url of CPU and   *)
(* the accelerators resolve to urls that differ from one another.  This    *)
(* holds on both architectures.                                            *)
C11_AcceleratorPolicy ==
    Resolved =>
        /\ hostArch \in {"amd64", "arm64"}
        /\ hostOs = "darwin" => rOut = UrlFor(HW_NONE)
        /\ hostOs = "linux" =>
              /\ rHw # HW_VULKAN => rOut = UrlFor(HW_NONE)
              /\ rHw = HW_VULKAN => rOut # UrlFor(HW_NONE)
        /\ hostOs = "windows" =>
              /\ rHw = HW_NONE => rOut = UrlFor(HW_CPU)
              /\ rHw # HW_NONE => \A h \in Accelerators \ {rHw} : rOut # UrlFor(h)

C11_Witness ==
    /\ Resolved
    /\ hostOs = "linux" /\ hostArch = "arm64"
    /\ rHw = HW_CUDA
    /\ rOut = UrlFor(HW_NONE)
    /\ rOut # UrlFor(HW_VULKAN)

\* the places where tag occurs in text
Occurrences(text, tag) ==
    {i \in 1 .. (Len(text) - Len(tag) + 1) : SubSeq(text, i, i + Len(tag) - 1) = tag}

\* the place of the only occurrence of tag in text, 0 when there is not
\* exactly one
Place(text, tag) ==
    IF Cardinality(Occurrences(text, tag)) = 1
    THEN CHOOSE i \in Occurrences(text, tag) : TRUE
    ELSE 0

OsTag == NameIn(osNames, OpSysOf(hostOs))
ArchTag == NameIn(archNames, ArchOf(hostArch))
AccelTag == NameIn(hwNames, HardwareFor(OpSysOf(hostOs), rHw))

\* C12 as the specification states it: operating system, architecture and
\* accelerator tags once each, in that order
C12_AsStated ==
    Resolved =>
        /\ rOut = UrlFor(rHw)
        /\ Place(rOut.url, OsTag) > 0
        /\ Place(rOut.url, OsTag) < Place(rOut.url, ArchTag)
        /\ AccelTag # <<>> =>
              Place(rOut.url, ArchTag) < Place(rOut.url, AccelTag)

(* C12: on a supported host the url depends on nothing but the operating   *)
(* system, the architecture and the hardware asked for, and it holds the   *)
(* operating system tag, the accelerator tag (when the build has one) and  *)
(* the architecture tag exactly once each, in this order.                  *)
C12_TagsInOrder ==
    Resolved =>
        /\ rOut = UrlFor(rHw)
        /\ Place(rOut.url, OsTag) > 0
        /\ Place(rOut.url, OsTag) < Place(rOut.url, ArchTag)
        /\ AccelTag # <<>> =>
              /\ Place(rOut.url, OsTag) < Place(rOut.url, AccelTag)
              /\ Place(rOut.url, AccelTag) < Place(rOut.url, ArchTag)

C12_Witness ==
    /\ Resolved
    /\ hostOs = "windows" /\ hostArch = "amd64"
    /\ rHw = HW_CUDA
    /\ Place(rOut.url, AccelTag) > Place(rOut.url, OsTag)

----------------------------------------------------------------------------
(* Properties of DownloadRequirements *)

\* the files in the worker directory that were there when the call began
Leftovers == {q \in FilesIn(fs, WorkerDir) : fs[q].old}

\* the call has come to its end without an error
Provisioned == pPc = "ret" /\ pRes = NoErr

(* C13: when DownloadRequirements reaches the extraction of the archive,   *)
(* and when it returns without an error, the worker directory holds none   *)
(* of the files it held when the call began.                               *)
C13_DirectoryReset ==
    (pPc = "extract" \/ pWrote # {} \/ Provisioned) => Leftovers = {}

C13_Witness ==
    /\ Provisioned
    /\ NotesPath \in pOld
    /\ ServerPath \in pOld
    /\ NotesPath \notin DOMAIN fs
    /\ IsFile(fs, ServerPath)
    /\ ServerPath \in pWrote

\* C19 as the specification states it: whatever the names in the archive,
\* the extraction creates and writes only inside the worker directory, and
\* what lies outside it is as it was when the call began
C19_ExtractsInside ==
    /\ \A q \in pWrote : Below(q, WorkerDir)
    /\ \A q \in DOMAIN fs : ~Within(q, WorkerDir) => fs[q].old

\* the GET of the latest call was answered with a status outside 200..299
Refused ==
    /\ pPc = "ret"
    /\ pReply # NoReply
    /\ ~pReply.failed
    /\ pReply.code \notin 200..299

\* C20 as the specification states it: the error carries the body the
\* server sent
C20_AsStated ==
    Refused =>
        /\ pRes = ErrBody(pReply.text)
        /\ pWrote = {}
        /\ ~IsRequDownloaded

(* C20: when the GET is answered with a status outside 200..299, the call  *)
(* returns an error whose message is the part of the body that could be    *)
(* read (all of it unless the stream broke), nothing has been extracted,   *)
(* and IsRequDownloaded is false even if it was true when the call began.  *)
C20_FetchFailed ==
    Refused =>
        /\ pRes.src = "errors.New"
        /\ pRes.msg = SubSeq(pReply.text, 1, pReply.got)
        /\ pReply.got = Len(pReply.text) => pRes = ErrBody(pReply.text)
        /\ pWrote = {}
        /\ FilesIn(fs, WorkerDir) = {}
        /\ ~IsRequDownloaded

C20_Witness ==
    /\ Refused
    /\ pReply.code = 404
    /\ pRes = ErrBody(NotFound)
    /\ pHad
    /\ ~IsRequDownloaded

----------------------------------------------------------------------------
(* Properties of the timeout of WaitUntilLoaded *)

\* C18 as the specification states it: the deadline is the ceiling exactly
\* when the timeout is not positive, and every positive timeout, however
\* small, is the deadline as given
C18_CeilingIffNonPositive ==
    wPc # "idle" =>
        /\ wArg <= 0 => wDeadline = Ceiling
        /\ wArg > 0 => wDeadline = wArg

----------------------------------------------------------------------------
(* Properties of x.isConn and of the requests a call makes *)

\* no operation on the handle is under way
Quiescent == wPc = "idle" /\ \A c \in Callers : pc[c] = "idle"

\* the POST of caller c is answered and the call returns an error
FailsNow(c) == pc[c] = "post" /\ pc'[c] = "ret" /\ res'[c].err # NoErr

(* C14: x.isConn starts false; between operations it is true exactly when  *)
(* a Chat or Complete call has returned a nil error; no step, Close        *)
(* included, sets it back to false; and a call that returns an error       *)
(* leaves it as it was.                                                    *)
C14_ConnectedFlag ==
    /\ ~isConn
    /\ [](Quiescent => (isConn <=> succeeded))
    /\ [][isConn => isConn']_vars
    /\ [][(\E c \in Callers : FailsNow(c)) => isConn' = isConn]_vars

C14_Witness ==
    /\ isConn /\ succeeded /\ waited
    /\ closeRes = "nil" /\ proc = "killed"
    /\ pc["a"] = "ret" /\ res["a"].err # NoErr

(* C15: with two calls under way at once, a call has issued its POST only  *)
(* after a probe of its own was answered with a status below 500 or after  *)
(* it read x.isConn as true; x.isConn is read as true only when it is      *)
(* true, which it is only once some call has got a result without error;   *)
(* and once a call has got such a result x.isConn is true.                 *)
C15_ConcurrentFirstCalls ==
    /\ \A c \in Callers :
          /\ posts[c] >= 1 =>
                \/ sawConn[c]
                \/ probes[c] >= 1 /\ Ready(lastProbe[c])
          /\ sawConn[c] => isConn /\ probes[c] = 0
          /\ ~sawConn[c] /\ pc[c] \in {"head", "post", "ret"} => probes[c] >= 1
          /\ pc[c] = "ret" /\ res[c].err = NoErr => isConn
    /\ succeeded => isConn
    /\ isConn => \/ succeeded
                 \/ \E c \in Callers : pc[c] = "ret" /\ res[c].err = NoErr

C15_Witness ==
    /\ ~succeeded
    /\ pc["a"] = "ret" /\ res["a"].err = NoErr /\ ~sawConn["a"]
    /\ pc["b"] = "post" /\ ~sawConn["b"] /\ probes["b"] >= 2
    /\ isConn

(* C16: a call issues at most one POST, and once it has issued it the call *)
(* issues no further POST and no further probe, whatever the answer;        *)
(* when the POST fails the call is left with the error to return.          *)
C16_NoRetry ==
    /\ [](\A c \in Callers : posts[c] <= 1)
    /\ [][\A c \in Callers :
            posts[c] >= 1 => posts'[c] <= posts[c] /\ probes'[c] <= probes[c]]_vars
    /\ [][\A c \in Callers :
            (pc[c] = "post" /\ body'[c] # NoBody /\ Answer(op[c], body'[c]).err # NoErr)
                => pc'[c] = "ret" /\ res'[c].err # NoErr]_vars

C16_Witness ==
    /\ pc["a"] = "ret"
    /\ posts["a"] = 1 /\ probes["a"] = 1
    /\ body["a"].kind = "body"
    /\ res["a"].err = ErrJson

(* C17: no step of WaitUntilLoaded changes x.proc or x.isConn or starts or *)
(* stops a process, whether it returns nil or "time out"; so on a handle   *)
(* no call has succeeded on, a call that follows a successful              *)
(* WaitUntilLoaded issues its POST only after a probe of its own.          *)
C17_WaitLeavesHandle ==
    /\ [][wPc' # wPc => UNCHANGED <<hasHandle, proc, isConn, launched>>]_vars
    /\ [](waited /\ ~succeeded /\ posts["a"] >= 1 => probes["a"] >= 1)

C17_Witness ==
    /\ waited /\ ~succeeded /\ ~isConn
    /\ proc = "running"
    /\ pc["a"] = "post" /\ probes["a"] >= 1

====
